---- MODULE Spec2Model ----
(***************************************************************************)
(* Kyakuhon Text Formatter (src/ktf/ktf.py): the interactive loop of       *)
(* ktf(), with load_text_file, text_preprocessor, add_attribute_to_line,   *)
(* fix_line_breaks, format_to_docx and the save of the .docx document.     *)
(*                                                                         *)
(* A line of text is a sequence of glyphs.  The glyphs are named:          *)
(*   maru ○, shikaku □, kagiL 「, kagiR 」, batsu ×, sumiL 【, sumiR 】,       *)
(*   zsp (the fullwidth space U+3000), a (any other printing character).   *)
(* No glyph is a line terminator: the lines come from str.splitlines().    *)
(***************************************************************************)
EXTENDS Integers, Sequences, FiniteSets, TLC

\* ------------------------------------------------------------------ bounds
\* longest file explored, in lines taken from LinePool
MaxLines == 3
\* longest line explored exhaustively (files of one such line)
MaxLineLen == 3

\* ------------------------------------------------------------------ glyphs
Glyphs == {"maru", "shikaku", "kagiL", "kagiR", "batsu", "sumiL", "sumiR", "zsp", "a"}

\* the characters str.strip() removes and the regex class \s matches
Whitespace == {"zsp"}

\* what the regex '.' matches: every character but a newline
Dot == Glyphs

RECURSIVE SeqsUpTo(_, _)
SeqsUpTo(S, n) ==
    IF n = 0 THEN {<<>>}
    ELSE LET R == SeqsUpTo(S, n - 1)
         IN  R \cup {Append(r, x) : r \in R, x \in S}

\* ---------------------------------------------------------- enumerations
\* class LineAttribute
HASHIRA == "HASHIRA"
TOGAKI == "TOGAKI"
SERIFU == "SERIFU"
BUNRITAI == "BUNRITAI"
MIDASHI == "MIDASHI"
KAIGYO == "KAIGYO"
LineAttribute == {HASHIRA, TOGAKI, SERIFU, BUNRITAI, MIDASHI, KAIGYO}

\* class Status (the members ktf uses)
MESSAGE == "MESSAGE"
FAILURE == "FAILURE"
SUCCESS == "SUCCESS"
PROSESSING == "PROSESSING"

\* message(text, status): the line it prints
message(text, status) == [status |-> status, text |-> text]

\* ------------------------------------------------------------ file system
\* A path, already split the way os.path.dirname/basename/splitext split it.
ScriptTxt == [dir |-> "d", base |-> "script", ext |-> ".txt"]
NotesMd == [dir |-> "d", base |-> "notes", ext |-> ".md"]
MissingTxt == [dir |-> "d", base |-> "missing", ext |-> ".txt"]
NoPath == [dir |-> "", base |-> "", ext |-> ""]
Paths == {ScriptTxt, NotesMd, MissingTxt}

\* the regular files on disk
ExistingFiles == {ScriptTxt, NotesMd}

\* os.path.isfile
isfile(p) == p \in ExistingFiles

\* os.path.splitext(p): (root, extension)
splitext(p) == <<[dir |-> p.dir, base |-> p.base, ext |-> ""], p.ext>>

\* the raw lines a script is written with
LinePool ==
    { <<"maru", "a">>,
      <<"kagiL", "a", "kagiR">>,
      <<"a", "kagiL", "a", "kagiR">>,
      <<"maru", "kagiL", "a", "kagiR">>,
      <<"batsu", "zsp", "batsu", "zsp", "zsp", "batsu">>,
      <<"sumiL", "a", "sumiR">>,
      <<>>,
      <<"zsp", "a", "zsp">>,
      <<"maru">> }

\* the contents of the .txt file: f.read().splitlines()
FileContents == SeqsUpTo(LinePool, MaxLines) \cup {<<l>> : l \in SeqsUpTo(Glyphs, MaxLineLen)}

\* the value None of load_text_file (a list no file can hold)
None == << <<"None">> >>

\* no python-docx Document yet
NoDoc == << [text |-> <<"None">>, style |-> "", indent |-> 0] >>

VARIABLES
    pc,                    \* where the process is
    content,               \* the lines of the .txt file on disk
    saved,                 \* the .docx paths written so far
    out,                   \* what this iteration printed
    file_path,             \* ktf: file_path
    lines,                 \* ktf: lines
    line_with_attributes,  \* ktf: line_with_attributes (line 230), the argument of fix_line_breaks
    buffer,                \* fix_line_breaks: buffer; ktf: line_with_attributes (line 231)
    context,               \* fix_line_breaks: context
    pos,                   \* fix_line_breaks: position of the for loop
    doc                    \* ktf: doc

vars == <<pc, content, saved, out, file_path, lines, line_with_attributes, buffer, context, pos, doc>>


\* --------------------------------------------------------- text_preprocessor
RECURSIVE lstrip(_)
lstrip(s) == IF s # <<>> /\ Head(s) \in Whitespace THEN lstrip(Tail(s)) ELSE s

RECURSIVE rstrip(_)
rstrip(s) ==
    IF s # <<>> /\ s[Len(s)] \in Whitespace THEN rstrip(SubSeq(s, 1, Len(s) - 1)) ELSE s

\* str.strip()
strip(s) == rstrip(lstrip(s))

\* [s.strip() for s in lines]
text_preprocessor(ls) == [i \in 1..Len(ls) |-> strip(ls[i])]

\* ------------------------------------------------------------------- re
\* A pattern is a sequence of atoms, each a character class with a
\* quantifier ("1", "+" or "*"), and says whether it ends with '$'.
\* re.match anchors every pattern at the start of the string.
Atom(cls, q) == [cls |-> cls, q |-> q]

\* the positions j >= i with s[i..j-1] wholly in cls
Run(cls, s, i) == {j \in i..(Len(s) + 1) : \A k \in i..(j - 1) : s[k] \in cls}

\* the positions one atom can end at when it starts at i
AtomEnds(atom, s, i) ==
    IF atom.q = "1"
    THEN IF i <= Len(s) /\ s[i] \in atom.cls THEN {i + 1} ELSE {}
    ELSE IF atom.q = "+" THEN Run(atom.cls, s, i) \ {i}
    ELSE Run(atom.cls, s, i)

\* the positions the atoms k.. can end at when they start at a position of P
RECURSIVE Ends(_, _, _, _)
Ends(atoms, s, k, P) ==
    IF k > Len(atoms) THEN P
    ELSE Ends(atoms, s, k + 1, UNION {AtomEnds(atoms[k], s, i) : i \in P})

\* pattern.match(s) is not None
match(re, s) ==
    LET E == Ends(re.atoms, s, 1, {1})
    IN  IF re.eol THEN (Len(s) + 1) \in E ELSE E # {}

\* ------------------------------------------------------ add_attribute_to_line
\* r'^[○□].+'
hashira == [atoms |-> <<Atom({"maru", "shikaku"}, "1"), Atom(Dot, "+")>>, eol |-> FALSE]

\* r'^「.+」$': the pattern without the leading '.*'
serifu_wrapped ==
    [atoms |-> <<Atom({"kagiL"}, "1"), Atom(Dot, "+"), Atom({"kagiR"}, "1")>>, eol |-> TRUE]

\* r'^.*「.+」$'
serifu ==
    [atoms |-> <<Atom(Dot, "*"), Atom({"kagiL"}, "1"), Atom(Dot, "+"), Atom({"kagiR"}, "1")>>,
     eol |-> TRUE]

\* r'^×\s+×\s+×$'
bunritai ==
    [atoms |-> <<Atom({"batsu"}, "1"), Atom(Whitespace, "+"), Atom({"batsu"}, "1"),
                 Atom(Whitespace, "+"), Atom({"batsu"}, "1")>>,
     eol |-> TRUE]

\* r'^【.+】$'
midashi ==
    [atoms |-> <<Atom({"sumiL"}, "1"), Atom(Dot, "+"), Atom({"sumiR"}, "1")>>, eol |-> TRUE]

\* the list [text, attribute] built for a line; id is the identity of that
\* list object: the position of the line it was built for
Entry(text, attr, id) == [text |-> text, attr |-> attr, id |-> id]

\* the elif chain with Dialogue tested before Slugline
tag_serifu_first(l, i) ==
    IF match(serifu, l) THEN Entry(l, SERIFU, i)
    ELSE IF match(hashira, l) THEN Entry(l, HASHIRA, i)
    ELSE IF match(bunritai, l) THEN Entry(<<"zsp">> \o l, BUNRITAI, i)
    ELSE IF match(midashi, l) THEN Entry(l, MIDASHI, i)
    ELSE IF l = <<>> THEN Entry(l, KAIGYO, i)
    ELSE Entry(l, TOGAKI, i)

\* the elif chain without the fullwidth space before a Transition
tag_no_prefix(l, i) ==
    IF match(hashira, l) THEN Entry(l, HASHIRA, i)
    ELSE IF match(serifu, l) THEN Entry(l, SERIFU, i)
    ELSE IF match(bunritai, l) THEN Entry(l, BUNRITAI, i)
    ELSE IF match(midashi, l) THEN Entry(l, MIDASHI, i)
    ELSE IF l = <<>> THEN Entry(l, KAIGYO, i)
    ELSE Entry(l, TOGAKI, i)

\* one pass of the loop body: the if/elif chain
tag(l, i) ==
    IF match(hashira, l) THEN Entry(l, HASHIRA, i)
    ELSE IF match(serifu, l) THEN Entry(l, SERIFU, i)
    ELSE IF match(bunritai, l) THEN Entry(<<"zsp">> \o l, BUNRITAI, i)
    ELSE IF match(midashi, l) THEN Entry(l, MIDASHI, i)
    ELSE IF l = <<>> THEN Entry(l, KAIGYO, i)
    ELSE Entry(l, TOGAKI, i)

add_attribute_to_line(ls) == [i \in 1..Len(ls) |-> tag(ls[i], i)]

\* ------------------------------------------------------------ fix_line_breaks
\* ['', LineAttribute.KAIGYO]: a fresh list, the input holds no such object
Synthetic == Entry(<<>>, KAIGYO, 0)

\* the rule without the test for consecutive Sluglines
NeedsBlank_no_hashira(ctx, attr) ==
    ctx # attr /\ attr # KAIGYO /\ ctx # KAIGYO

\* the rule without the test that the context is not a Blank
NeedsBlank_any_context(ctx, attr) ==
    IF ctx = attr THEN attr = HASHIRA
    ELSE attr # KAIGYO

\* the rule with a Blank between any two lines of one category
NeedsBlank_same_category(ctx, attr) ==
    IF ctx = attr THEN attr # KAIGYO
    ELSE attr # KAIGYO /\ ctx # KAIGYO

\* whether the loop body appends a Blank before the entry
NeedsBlank(ctx, attr) ==
    IF ctx = attr THEN attr = HASHIRA
    ELSE attr # KAIGYO /\ ctx # KAIGYO

\* the loop body with buffer.append(lwa) moved into an else
Rebuild_else(buf, e, blank) ==
    IF blank THEN Append(buf, Synthetic) ELSE Append(buf, e)

\* the appends of the loop body
Rebuild(buf, e, blank) ==
    Append(IF blank THEN Append(buf, Synthetic) ELSE buf, e)

\* -------------------------------------------------------------- format_to_docx
\* the paragraph added for an entry: heading or paragraph, and its
\* left indent in half inches
paragraph(e) ==
    [text |-> e.text,
     style |-> IF e.attr = HASHIRA THEN "Heading 3" ELSE "Normal",
     indent |-> IF e.attr = SERIFU THEN 1
                ELSE IF e.attr \in {TOGAKI, BUNRITAI} THEN 2
                ELSE 0]

format_to_docx(lwa) == [i \in 1..Len(lwa) |-> paragraph(lwa[i])]

\* --------------------------------------------------------------- load_text_file
\* load_text_file without the test of the extension
load_text_file_any_ext(p, c) ==
    IF ~isfile(p)
    THEN [lines |-> None, printed |-> <<message("There is no file.", FAILURE)>>]
    ELSE [lines |-> c, printed |-> <<message("Text has been read.", SUCCESS)>>]

\* the value returned for the path p when the file holds the lines c, and
\* what is printed
load_text_file(p, c) ==
    IF ~isfile(p)
    THEN [lines |-> None, printed |-> <<message("There is no file.", FAILURE)>>]
    ELSE IF splitext(p)[2] # ".txt"
    THEN [lines |-> None, printed |-> <<message("This is not a .txt file.", FAILURE)>>]
    ELSE [lines |-> c, printed |-> <<message("Text has been read.", SUCCESS)>>]

\* os.path.join(dirname, basename_without_ext + '.docx')
target_path(p) == [dir |-> p.dir, base |-> splitext(p)[1].base, ext |-> ".docx"]

\* ------------------------------------------------------------------- ktf
\* the context before fix_line_breaks has set it
NoContext == ""

\* the locals of ktf and of the functions it calls, before they are bound
Unbound ==
    /\ file_path = NoPath
    /\ lines = <<>>
    /\ line_with_attributes = <<>>
    /\ buffer = <<>>
    /\ context = NoContext
    /\ pos = 0
    /\ doc = NoDoc

\* the locals go out of scope
Release ==
    /\ file_path' = NoPath
    /\ lines' = <<>>
    /\ line_with_attributes' = <<>>
    /\ buffer' = <<>>
    /\ context' = NoContext
    /\ pos' = 0
    /\ doc' = NoDoc

\* the process starts: eyecatch() prints the banner, ktf() is about to run
Init ==
    /\ pc = "prompt"
    /\ content \in FileContents
    /\ saved = {}
    /\ out = <<[status |-> "", text |-> "eyecatch"]>>
    /\ Unbound

\* message(...); file_path = input()
Prompt ==
    /\ pc = "prompt"
    /\ \E p \in Paths : file_path' = p
    /\ out' = <<message("Drag and drop the source text file and Enter.", MESSAGE)>>
    /\ pc' = "load"
    /\ UNCHANGED <<content, saved, lines, line_with_attributes, buffer, context, pos, doc>>

\* lines = load_text_file(file_path)
Load ==
    /\ pc = "load"
    /\ LET r == load_text_file(file_path, content)
       IN  /\ lines' = r.lines
           /\ out' = out \o r.printed
    /\ pc' = "barrier"
    /\ UNCHANGED <<content, saved, file_path, line_with_attributes, buffer, context, pos, doc>>

\* if lines == None: return None
Barrier ==
    /\ pc = "barrier"
    /\ pc' = IF lines = None THEN "restart" ELSE "preprocess"
    /\ UNCHANGED <<content, saved, out, file_path, lines, line_with_attributes, buffer, context,
                   pos, doc>>

\* lines = text_preprocessor(lines)
Preprocess ==
    /\ pc = "preprocess"
    /\ lines' = text_preprocessor(lines)
    /\ pc' = "classify"
    /\ UNCHANGED <<content, saved, out, file_path, line_with_attributes, buffer, context, pos, doc>>

\* line_with_attributes = add_attribute_to_line(lines)
Classify ==
    /\ pc = "classify"
    /\ line_with_attributes' = add_attribute_to_line(lines)
    /\ pc' = "fix_init"
    /\ UNCHANGED <<content, saved, out, file_path, lines, buffer, context, pos, doc>>

\* fix_line_breaks: buffer = []; context = line_with_attributes[0][1]
FixInit ==
    /\ pc = "fix_init"
    /\ Len(line_with_attributes) > 0
    /\ buffer' = <<>>
    /\ context' = line_with_attributes[1].attr
    /\ pos' = 1
    /\ pc' = "fix_loop"
    /\ UNCHANGED <<content, saved, out, file_path, lines, line_with_attributes, doc>>

\* fix_line_breaks: line_with_attributes[0] of an empty list raises IndexError,
\* which nothing catches: the process ends with a traceback
FixIndexError ==
    /\ pc = "fix_init"
    /\ Len(line_with_attributes) = 0
    /\ pc' = "crashed"
    /\ out' = Append(out, [status |-> "", text |-> "IndexError"])
    /\ Release
    /\ UNCHANGED <<content, saved>>

\* fix_line_breaks: one pass of the for loop
FixStep ==
    /\ pc = "fix_loop"
    /\ pos <= Len(line_with_attributes)
    /\ LET lwa == line_with_attributes[pos]
       IN  /\ buffer' = Rebuild(buffer, lwa, NeedsBlank(context, lwa.attr))
           /\ context' = lwa.attr
    /\ pos' = pos + 1
    /\ UNCHANGED <<pc, content, saved, out, file_path, lines, line_with_attributes, doc>>

\* fix_line_breaks: return buffer
FixReturn ==
    /\ pc = "fix_loop"
    /\ pos > Len(line_with_attributes)
    /\ pc' = "format"
    /\ UNCHANGED <<content, saved, out, file_path, lines, line_with_attributes, buffer, context,
                   pos, doc>>

\* message(...); doc = format_to_docx(line_with_attributes)
Format ==
    /\ pc = "format"
    /\ out' = Append(out, message("Generating .docx file. Please wait...", PROSESSING))
    /\ doc' = format_to_docx(buffer)
    /\ pc' = "save"
    /\ UNCHANGED <<content, saved, file_path, lines, line_with_attributes, buffer, context, pos>>

\* doc.save(target_path); message(...)
Save ==
    /\ pc = "save"
    /\ saved' = saved \cup {target_path(file_path)}
    /\ out' = Append(out, message(".docx file Generated at:", SUCCESS))
    /\ pc' = "restart"
    /\ UNCHANGED <<content, file_path, lines, line_with_attributes, buffer, context, pos, doc>>

\* ktf() has returned: the while loop prints its two lines and calls ktf() again
Restart ==
    /\ pc = "restart"
    /\ out' = <<[status |-> "", text |-> "-------Re-Start--------"],
                message("(Exit: Ctrl + C)", MESSAGE)>>
    /\ pc' = "prompt"
    /\ Release
    /\ UNCHANGED <<content, saved>>

\* Ctrl + C: KeyboardInterrupt ends the loop, 'Process KILLED.' is printed
Interrupt ==
    /\ pc \notin {"crashed", "killed"}
    /\ pc' = "killed"
    /\ out' = <<[status |-> "", text |-> "Process KILLED."]>>
    /\ Release
    /\ UNCHANGED <<content, saved>>

Next ==
    \/ Prompt
    \/ Load
    \/ Barrier
    \/ Preprocess
    \/ Classify
    \/ FixInit
    \/ FixIndexError
    \/ FixStep
    \/ FixReturn
    \/ Format
    \/ Save
    \/ Restart
    \/ Interrupt

Spec == Init /\ [][Next]_vars

\* ------------------------------------------------------------ the claims
\* fix_line_breaks has returned: line_with_attributes is what it was given,
\* buffer what it returned
Normalized == pc = "format"

\* add_attribute_to_line has returned: lines is what it was given
Classified == pc = "fix_init"

\* the adjacency rule for a pair of categories (prev, cur)
PairRule(prev, cur) ==
    \/ prev = cur /\ cur = HASHIRA
    \/ prev # cur /\ prev # KAIGYO /\ cur # KAIGYO

\* the positions of the output that hold the i-th entry of the input
Places(i) == {k \in 1..Len(buffer) : buffer[k].id = i}

Place(i) == CHOOSE k \in Places(i) : TRUE

IsOriginal(e) == e.id # 0

\* C1: no Blank is inserted before the first entry, whatever its category: the
\* output starts with the first entry of the input, and an input of one entry
\* is returned unchanged.
C1_FirstEntryFirst ==
    Normalized =>
        /\ buffer[1] = line_with_attributes[1]
        /\ (Len(line_with_attributes) = 1 => buffer = line_with_attributes)

\* C2: between the (i-1)-th and the i-th entry of the input the output holds
\* exactly one synthetic ('', Blank) entry when both are Sluglines or when
\* their categories differ and neither is Blank, and nothing otherwise.
C2_OneBlankPerPair ==
    Normalized =>
        /\ \A i \in 1..Len(line_with_attributes) : Cardinality(Places(i)) = 1
        /\ \A i \in 2..Len(line_with_attributes) :
              LET prev == line_with_attributes[i - 1].attr
                  cur == line_with_attributes[i].attr
              IN  /\ Place(i) - Place(i - 1) - 1 = (IF PairRule(prev, cur) THEN 1 ELSE 0)
                  /\ \A k \in (Place(i - 1) + 1)..(Place(i) - 1) : buffer[k] = Synthetic

C2_Witness ==
    /\ Normalized
    /\ \E i, j \in 2..Len(line_with_attributes) :
          /\ PairRule(line_with_attributes[i - 1].attr, line_with_attributes[i].attr)
          /\ ~PairRule(line_with_attributes[j - 1].attr, line_with_attributes[j].attr)
          /\ Place(i) = Place(i - 1) + 2
          /\ Place(j) = Place(j - 1) + 1

\* C3: the output with its synthetic entries removed is the input: the same
\* entries (the same objects, text and category), in the same order; the
\* output is at least as long as the input.
C3_ContentKept ==
    Normalized =>
        /\ SelectSeq(buffer, IsOriginal) = line_with_attributes
        /\ \A k \in 1..Len(buffer) : ~IsOriginal(buffer[k]) => buffer[k] = Synthetic
        /\ Len(buffer) >= Len(line_with_attributes)

C3_Witness ==
    /\ Normalized
    /\ Len(line_with_attributes) >= 3
    /\ Len(buffer) > Len(line_with_attributes)
    /\ \E i \in 1..Len(line_with_attributes) : line_with_attributes[i].attr = KAIGYO

\* C4: in the output no two adjacent entries are both non-Blank with different
\* categories, and no two adjacent entries are both Sluglines.
C4_Separated ==
    Normalized =>
        \A k \in 1..(Len(buffer) - 1) :
            LET x == buffer[k].attr
                y == buffer[k + 1].attr
            IN  /\ ~(x # KAIGYO /\ y # KAIGYO /\ x # y)
                /\ ~(x = HASHIRA /\ y = HASHIRA)

C4_Witness ==
    /\ Normalized
    /\ \E i, j \in 2..Len(line_with_attributes) :
          /\ line_with_attributes[i - 1].attr = HASHIRA
          /\ line_with_attributes[i].attr = HASHIRA
          /\ line_with_attributes[j - 1].attr \notin {KAIGYO, HASHIRA}
          /\ line_with_attributes[j].attr \notin {KAIGYO, line_with_attributes[j - 1].attr}

\* C5 as stated: in the output no two non-Blank entries are adjacent, be they
\* of one category or of two.
C5_NoAdjacentNonBlank ==
    Normalized =>
        \A k \in 1..(Len(buffer) - 1) :
            ~(buffer[k].attr # KAIGYO /\ buffer[k + 1].attr # KAIGYO)

\* C5 amended: two adjacent entries of the output that share a non-Blank
\* category are never Sluglines and are two consecutive entries of the input;
\* and two consecutive entries of the input that share a category other than
\* Slugline stay adjacent in the output, no Blank being put between them.
C5_SameCategoryLeftAdjacent ==
    Normalized =>
        /\ \A k \in 1..(Len(buffer) - 1) :
              (buffer[k].attr = buffer[k + 1].attr /\ buffer[k].attr # KAIGYO) =>
                  /\ buffer[k].attr # HASHIRA
                  /\ IsOriginal(buffer[k])
                  /\ buffer[k + 1].id = buffer[k].id + 1
        /\ \A i \in 2..Len(line_with_attributes) :
              (/\ line_with_attributes[i - 1].attr = line_with_attributes[i].attr
               /\ line_with_attributes[i].attr # HASHIRA) =>
                  \E k \in 1..(Len(buffer) - 1) :
                      /\ buffer[k] = line_with_attributes[i - 1]
                      /\ buffer[k + 1] = line_with_attributes[i]

C5_Witness ==
    /\ Normalized
    /\ \E k \in 1..(Len(buffer) - 1) :
          /\ buffer[k].attr = TOGAKI
          /\ buffer[k + 1].attr = TOGAKI
          /\ buffer[k].text # buffer[k + 1].text

\* what the patterns ask of a line, said of its characters
StartsWithMarker(l) == Len(l) >= 2 /\ l[1] \in {"maru", "shikaku"}

EndsWithQuoted(l) ==
    /\ Len(l) >= 3
    /\ l[Len(l)] = "kagiR"
    /\ \E i \in 1..(Len(l) - 2) : l[i] = "kagiL"

WrappedInQuotes(l) == Len(l) >= 3 /\ l[1] = "kagiL" /\ l[Len(l)] = "kagiR"

IsSeparator(l) ==
    /\ Len(l) >= 5
    /\ l[1] = "batsu"
    /\ l[Len(l)] = "batsu"
    /\ \E m \in 3..(Len(l) - 2) :
          /\ l[m] = "batsu"
          /\ \A k \in 2..(Len(l) - 1) : k # m => l[k] \in Whitespace

WrappedInBrackets(l) == Len(l) >= 3 /\ l[1] = "sumiL" /\ l[Len(l)] = "sumiR"

FirstRule(l) ==
    IF StartsWithMarker(l) THEN HASHIRA
    ELSE IF EndsWithQuoted(l) THEN SERIFU
    ELSE IF IsSeparator(l) THEN BUNRITAI
    ELSE IF WrappedInBrackets(l) THEN MIDASHI
    ELSE IF Len(l) = 0 THEN KAIGYO
    ELSE TOGAKI

\* C6: add_attribute_to_line returns one entry per line, in order, each
\* tagged with exactly one of the six categories: that of the first rule, in
\* the order Slugline, Dialogue, Transition, Heading, Blank, that the line
\* meets, and Action when it meets none.
C6_FirstRuleWins ==
    Classified =>
        /\ Len(line_with_attributes) = Len(lines)
        /\ \A i \in 1..Len(lines) :
              /\ line_with_attributes[i].id = i
              /\ line_with_attributes[i].attr \in LineAttribute
              /\ line_with_attributes[i].attr = FirstRule(lines[i])

C6_Witness ==
    /\ Classified
    /\ \E i, j \in 1..Len(lines) :
          /\ StartsWithMarker(lines[i])
          /\ EndsWithQuoted(lines[i])
          /\ line_with_attributes[i].attr = HASHIRA
          /\ lines[j] = <<"maru">>
          /\ line_with_attributes[j].attr = TOGAKI

\* C7 as stated: a line that is not a Slugline is a Dialogue exactly when the
\* whole line is wrapped in the quote pair: opening quote first, closing quote
\* last, at least one character between.
C7_WrappedOnly ==
    Classified =>
        \A i \in 1..Len(lines) :
            line_with_attributes[i].attr # HASHIRA =>
                (line_with_attributes[i].attr = SERIFU <=> WrappedInQuotes(lines[i]))

\* C7 amended: a line that is not a Slugline is a Dialogue exactly when it
\* ends with the closing quote and an opening quote stands somewhere before
\* it with at least one character between the two; any text may come before
\* the opening quote.
C7_EndsQuoted ==
    Classified =>
        \A i \in 1..Len(lines) :
            line_with_attributes[i].attr # HASHIRA =>
                (line_with_attributes[i].attr = SERIFU <=> EndsWithQuoted(lines[i]))

C7_Witness ==
    /\ Classified
    /\ \E i \in 1..Len(lines) :
          /\ line_with_attributes[i].attr = SERIFU
          /\ lines[i][1] # "kagiL"

\* C8: add_attribute_to_line stores the line itself as the text of every
\* entry but a Transition, whose text is the line after one fullwidth space;
\* the list of lines it was given is left as it was.
C8_OnlyTransitionText ==
    [][(pc = "classify" /\ pc' = "fix_init") =>
          /\ lines' = lines
          /\ \A i \in 1..Len(lines) :
                line_with_attributes'[i].text =
                    (IF line_with_attributes'[i].attr = BUNRITAI
                     THEN <<"zsp">> \o lines[i]
                     ELSE lines[i])]_vars

C8_Witness ==
    /\ Classified
    /\ \E i, j \in 1..Len(lines) :
          /\ line_with_attributes[i].attr = BUNRITAI
          /\ line_with_attributes[i].text = <<"zsp">> \o lines[i]
          /\ line_with_attributes[j].attr = MIDASHI

\* C9: fix_line_breaks is never given an empty list, and no run ends in an
\* error nothing catches.
C9_NeverEmpty ==
    /\ pc = "fix_init" => Len(line_with_attributes) > 0
    /\ pc # "crashed"

\* the path names a regular file with the extension .txt
Valid(p) == p \in ExistingFiles /\ p.ext = ".txt"

Stages == {"preprocess", "classify", "fix_init", "fix_loop", "format", "save"}

\* C10: no stage of the pipeline runs and no document is written for a path
\* that names no regular file or has another extension than .txt; each of the
\* two failures prints its own failure message, ktf returns, and the loop
\* prompts again.
C10_RejectedBeforeProcessing ==
    [][/\ pc' \in Stages => Valid(file_path')
       /\ saved' # saved => Valid(file_path)
       /\ (pc = "load" /\ ~Valid(file_path) /\ pc' # "killed") =>
              /\ lines' = None
              /\ out' = Append(out, message(IF file_path \notin ExistingFiles
                                            THEN "There is no file."
                                            ELSE "This is not a .txt file.", FAILURE))
              /\ pc' = "barrier"
       /\ (pc = "barrier" /\ ~Valid(file_path) /\ pc' # "killed") => pc' = "restart"
       /\ (pc = "restart" /\ pc' # "killed") => pc' = "prompt"]_vars

C10_Witness ==
    /\ pc = "restart"
    /\ file_path = NotesMd
    /\ lines = None
    /\ out[Len(out)] = message("This is not a .txt file.", FAILURE)
    /\ saved = {}
====
